---- MODULE Spec2Model ----
(***************************************************************************)
(* ComputeTempAsphere (src/ASPHERE/compute_temp_asphere.cpp): temperature  *)
(* and kinetic tensor of aspherical particles, run SPMD on several MPI     *)
(* workers.  Every worker holds its own copy of the compute object and     *)
(* owns a disjoint part of the particles; the workers meet only in the     *)
(* collective reductions.                                                  *)
(*                                                                         *)
(* doubles are modelled as exact rationals <<numerator, denominator>>.     *)
(***************************************************************************)
EXTENDS Integers, Sequences, FiniteSets, TLC

\* ------------------------------------------------------------------ bounds

NWorkers == 2
NParticles == 2
MaxStep == 1
MaxFixes == 1

Workers == 1..NWorkers
Particles == 1..NParticles

\* ------------------------------------------------ doubles as exact rationals

Abs(x) == IF x < 0 THEN -x ELSE x

RECURSIVE GCD(_, _)
GCD(a, b) == IF b = 0 THEN a ELSE GCD(b, a % b)

\* the rational n/d (d # 0) in lowest terms with a positive denominator
norm[p \in Int \X Int] ==
  LET g == GCD(Abs(p[1]), Abs(p[2]))
      s == IF p[2] < 0 THEN -1 ELSE 1
  IN  <<(s * p[1]) \div g, (s * p[2]) \div g>>

Rat(n, d) == norm[<<n, d>>]

Zero == <<0, 1>>
FromInt(n) == <<n, 1>>

\* sum, product and quotient of two rationals
radd[p \in (Int \X Int) \X (Int \X Int)] ==
  Rat(p[1][1] * p[2][2] + p[2][1] * p[1][2], p[1][2] * p[2][2])

rmul[p \in (Int \X Int) \X (Int \X Int)] ==
  Rat(p[1][1] * p[2][1], p[1][2] * p[2][2])

rdiv[p \in (Int \X Int) \X (Int \X Int)] ==
  Rat(p[1][1] * p[2][2], p[1][2] * p[2][1])

RAdd(x, y) == radd[<<x, y>>]
RMul(x, y) == rmul[<<x, y>>]
RDiv(x, y) == rdiv[<<x, y>>]
RAdd3(x, y, z) == RAdd(RAdd(x, y), z)
RMul3(x, y, z) == RMul(RMul(x, y), z)

Zero6 == <<Zero, Zero, Zero, Zero, Zero, Zero>>
vadd6[p \in Seq(Int \X Int) \X Seq(Int \X Int)] ==
  << RAdd(p[1][1], p[2][1]), RAdd(p[1][2], p[2][2]), RAdd(p[1][3], p[2][3]),
     RAdd(p[1][4], p[2][4]), RAdd(p[1][5], p[2][5]), RAdd(p[1][6], p[2][6]) >>

VAdd6(a, b) == vadd6[<<a, b>>]

\* ------------------------------------------------------ physical constants

\* force->mvv2e and force->boltz: fixed by the unit system
mvv2e == 2
boltz == 3

\* ------------------------------------------- MathExtra (math_extra.h) helpers

\* quat_to_mat: rotation matrix of the unit quaternion q = (w,i,j,k);
\* q is held in half units (q = qh / 2), so every product carries a 1/4
quat_to_mat(qh) ==
  LET w2 == qh[1] * qh[1]
      i2 == qh[2] * qh[2]
      j2 == qh[3] * qh[3]
      k2 == qh[4] * qh[4]
      twoij == 2 * qh[2] * qh[3]
      twoik == 2 * qh[2] * qh[4]
      twojk == 2 * qh[3] * qh[4]
      twoiw == 2 * qh[2] * qh[1]
      twojw == 2 * qh[3] * qh[1]
      twokw == 2 * qh[4] * qh[1]
  IN  << << Rat(w2 + i2 - j2 - k2, 4), Rat(twoij - twokw, 4), Rat(twojw + twoik, 4) >>,
         << Rat(twoij + twokw, 4), Rat(w2 - i2 + j2 - k2, 4), Rat(twojk - twoiw, 4) >>,
         << Rat(twoik - twojw, 4), Rat(twojk + twoiw, 4), Rat(w2 - i2 - j2 + k2, 4) >> >>

\* transpose_matvec: ans = transpose(m) * v, v an integer 3-vector
matvec_t[p \in Seq(Seq(Int \X Int)) \X Seq(Int)] ==
  LET m == p[1]
      vec == p[2]
      row(k) == RAdd3(RMul(m[1][k], FromInt(vec[1])),
                      RMul(m[2][k], FromInt(vec[2])),
                      RMul(m[3][k], FromInt(vec[3])))
  IN  << row(1), row(2), row(3) >>

transpose_matvec(m, vec) == matvec_t[<<m, vec>>]

\* ------------------------------------------------- environment (inputs)

\* group id of this compute (Compute::igroup, set from the command's group)
igroup == 1

\* modify->compute: the computes a bias id can name.  dof_remove is what
\* tbias->dof_remove(-1) reports for the generic kinds.
modify_compute ==
  << [id |-> "partial", style |-> "temp/partial", tempflag |-> 1, tempbias |-> 1,
      igroup |-> igroup, dof_remove |-> 1],
     [id |-> "region", style |-> "temp/region", tempflag |-> 1, tempbias |-> 1,
      igroup |-> igroup, dof_remove |-> 0],
     [id |-> "pe", style |-> "pe", tempflag |-> 0, tempbias |-> 0,
      igroup |-> igroup, dof_remove |-> 0],
     [id |-> "plain", style |-> "temp", tempflag |-> 1, tempbias |-> 0,
      igroup |-> igroup, dof_remove |-> 0],
     [id |-> "other", style |-> "temp/partial", tempflag |-> 1, tempbias |-> 1,
      igroup |-> igroup + 1, dof_remove |-> 1] >>

\* arg[3] of the compute command, "NULL" when narg = 3
BiasIds == {"NULL", "partial", "region", "pe", "plain", "other", "nosuch"}

\* modify->find_compute(id): index of the compute named id, -1 if none
find_compute(id) ==
  LET hits == {i \in 1..Len(modify_compute) : modify_compute[i].id = id}
  IN  IF hits = {} THEN -1 ELSE CHOOSE i \in hits : \A j \in hits : i <= j

\* the particles a run can start from
\* an extended particle of the group, inside the bias region
InRegionEllipsoid ==
  [mask |-> TRUE, ellipsoid |-> 0, inregion |-> TRUE, rmass |-> 5,
   shape |-> <<1, 2, 3>>, quat |-> <<1, 1, 1, 1>>,
   v |-> <<1, 2, 0>>, angmom |-> <<1, 2, 3>>]
\* an extended (spherical) particle of the group, outside the bias region
OutRegionSphere ==
  [mask |-> TRUE, ellipsoid |-> 0, inregion |-> FALSE, rmass |-> 10,
   shape |-> <<1, 1, 1>>, quat |-> <<2, 0, 0, 0>>,
   v |-> <<0, 1, 1>>, angmom |-> <<0, 2, 0>>]
\* a point particle outside the group
OtherPoint ==
  [mask |-> FALSE, ellipsoid |-> -1, inregion |-> TRUE, rmass |-> 1,
   shape |-> <<1, 1, 1>>, quat |-> <<2, 0, 0, 0>>,
   v |-> <<3, 0, 0>>, angmom |-> <<0, 0, 0>>]
\* a point particle of the group
GroupPoint ==
  [mask |-> TRUE, ellipsoid |-> -1, inregion |-> TRUE, rmass |-> 1,
   shape |-> <<1, 1, 1>>, quat |-> <<2, 0, 0, 0>>,
   v |-> <<1, 0, 0>>, angmom |-> <<0, 0, 0>>]

\* the populations: all particles extended group members, or the last one a
\* point particle outside the group, or the last one a point particle in it
Populations == {"members", "mixed", "point"}
KindOf(p, pop) ==
  IF p = NParticles /\ pop = "mixed" THEN OtherPoint
  ELSE IF p = NParticles /\ pop = "point" THEN GroupPoint
  ELSE IF p % 2 = 1 THEN InRegionEllipsoid ELSE OutRegionSphere

\* what one fix can report from dof(igroup)
FixDofs == {7}

\* ------------------------------------------------------------------- state

VARIABLES
  id_bias,        \* bias compute id given at construction ("NULL": none)
  dimension,      \* domain->dimension
  dynamic,        \* Compute::dynamic
  extra_dof,      \* Compute::extra_dof
  fixes,          \* modify->fix[i]->dof(igroup), in order
  ntimestep,      \* update->ntimestep
  atom,           \* particle store: owner (0: lost), mask, ellipsoid, v, ...
  removed,        \* particles whose velocity currently has the bias removed
  vbiasall,       \* the bias handle's saved per-particle bias
  tbias_invoked,  \* tbias->invoked_scalar / invoked_vector, per worker
  pc,             \* where each worker stands
  request,        \* the call the driver has issued to each worker
  calls,          \* what the worker's current (or last) call has invoked
  sent,           \* contributions of each worker to the collectives of this call
  tempbias, fix_dof, dof, tfactor,
  scalar, vector, invoked_scalar, invoked_vector,
  t               \* local partial sum of the pass

envvars == <<id_bias, dimension, dynamic, extra_dof, fixes, ntimestep>>
objvars == <<tempbias, fix_dof, dof, tfactor, scalar, vector,
             invoked_scalar, invoked_vector>>
vars == <<id_bias, dimension, dynamic, extra_dof, fixes, ntimestep, atom,
          removed, vbiasall, tbias_invoked, pc, request, calls, sent,
          tempbias, fix_dof, dof, tfactor, scalar, vector, invoked_scalar,
          invoked_vector, t>>

\* ---------------------------------------------------------------- helpers

RECURSIVE SetToSeq(_)
SetToSeq(S) ==
  IF S = {} THEN <<>>
  ELSE LET m == CHOOSE x \in S : \A y \in S : x <= y
       IN  <<m>> \o SetToSeq(S \ {m})

RECURSIVE SumSeq(_)
SumSeq(s) == IF s = <<>> THEN 0 ELSE Head(s) + SumSeq(Tail(s))

\* the loop "for i < nlocal: if (mask[i] & groupbit)" on worker w
LocalGroup(w) == {p \in Particles : atom[p].owner = w /\ atom[p].mask}
LocalGroupSeq(w) == SetToSeq(LocalGroup(w))

Ev(name, p) == [ev |-> name, p |-> p]
Count(log, name) == Cardinality({k \in 1..Len(log) : log[k].ev = name})
Pos(log, name) == {k \in 1..Len(log) : log[k].ev = name}

\* ----------------------------------------------- rigid-body inertia kernel

\* principal moments of inertia
inertia(a) ==
  << Rat(a.rmass * (a.shape[2] * a.shape[2] + a.shape[3] * a.shape[3]), 5),
     Rat(a.rmass * (a.shape[1] * a.shape[1] + a.shape[3] * a.shape[3]), 5),
     Rat(a.rmass * (a.shape[1] * a.shape[1] + a.shape[2] * a.shape[2]), 5) >>

\* angular velocity in the body frame
wbody(a) ==
  LET rot == quat_to_mat(a.quat)
      scaled[wb \in {transpose_matvec(rot, a.angmom)}, I \in {inertia(a)}] ==
        << RDiv(wb[1], I[1]), RDiv(wb[2], I[2]), RDiv(wb[3], I[3]) >>
  IN  scaled[transpose_matvec(rot, a.angmom), inertia(a)]

\* faulty variant: the rotational energy about the third axis is left out
ScalarOneTwoAxes(a) ==
  LET one[I \in {inertia(a)}, w \in {wbody(a)}] ==
        RAdd(FromInt((a.v[1] * a.v[1] + a.v[2] * a.v[2] + a.v[3] * a.v[3]) * a.rmass),
             RAdd(RMul3(I[1], w[1], w[1]), RMul3(I[2], w[2], w[2])))
  IN  one[inertia(a), wbody(a)]

\* one particle's contribution to t in compute_scalar
ScalarOne(a) ==
  LET one[I \in {inertia(a)}, w \in {wbody(a)}] ==
        RAdd(FromInt((a.v[1] * a.v[1] + a.v[2] * a.v[2] + a.v[3] * a.v[3]) * a.rmass),
             RAdd3(RMul3(I[1], w[1], w[1]), RMul3(I[2], w[2], w[2]),
                   RMul3(I[3], w[3], w[3])))
  IN  one[inertia(a), wbody(a)]

\* faulty variant: the cross terms paired Iz*wz*wx (xz) and Iy*wy*wz (yz)
VectorOneCyclic(a) ==
  LET massone == a.rmass
      one[I \in {inertia(a)}, w \in {wbody(a)}] ==
        << RAdd(FromInt(massone * a.v[1] * a.v[1]), RMul3(I[1], w[1], w[1])),
           RAdd(FromInt(massone * a.v[2] * a.v[2]), RMul3(I[2], w[2], w[2])),
           RAdd(FromInt(massone * a.v[3] * a.v[3]), RMul3(I[3], w[3], w[3])),
           RAdd(FromInt(massone * a.v[1] * a.v[2]), RMul3(I[1], w[1], w[2])),
           RAdd(FromInt(massone * a.v[1] * a.v[3]), RMul3(I[3], w[3], w[1])),
           RAdd(FromInt(massone * a.v[2] * a.v[3]), RMul3(I[2], w[2], w[3])) >>
  IN  one[inertia(a), wbody(a)]

\* one particle's contribution to t[0..5] in compute_vector
VectorOne(a) ==
  LET massone == a.rmass
      one[I \in {inertia(a)}, w \in {wbody(a)}] ==
        << RAdd(FromInt(massone * a.v[1] * a.v[1]), RMul3(I[1], w[1], w[1])),
           RAdd(FromInt(massone * a.v[2] * a.v[2]), RMul3(I[2], w[2], w[2])),
           RAdd(FromInt(massone * a.v[3] * a.v[3]), RMul3(I[3], w[3], w[3])),
           RAdd(FromInt(massone * a.v[1] * a.v[2]), RMul3(I[1], w[1], w[2])),
           RAdd(FromInt(massone * a.v[1] * a.v[3]), RMul3(I[2], w[1], w[3])),
           RAdd(FromInt(massone * a.v[2] * a.v[3]), RMul3(I[3], w[2], w[3])) >>
  IN  one[inertia(a), wbody(a)]

\* the shape of one entry of the particle store
AtomRec ==
  [owner : Int, mask : BOOLEAN, ellipsoid : Int, inregion : BOOLEAN, rmass : Int,
   shape : Seq(Int), quat : Seq(Int), v : Seq(Int), angmom : Seq(Int)]

\* the loop body applied to particle record a, a read once
scalar_body[a \in AtomRec] == ScalarOne(a)
vector_body[a \in AtomRec] == VectorOne(a)

RECURSIVE ScalarLoop(_)
ScalarLoop(ps) ==
  IF ps = <<>> THEN Zero ELSE RAdd(scalar_body[atom[Head(ps)]], ScalarLoop(Tail(ps)))

RECURSIVE VectorLoop(_)
VectorLoop(ps) ==
  IF ps = <<>> THEN Zero6 ELSE VAdd6(vector_body[atom[Head(ps)]], VectorLoop(Tail(ps)))

\* --------------------------------------------------- bias handle (tbias)

\* the compute the bias id resolves to
Tbias == modify_compute[find_compute(id_bias)]

\* the non-thermal part the bias handle takes off a particle's velocity:
\* temp/region zeroes the velocity of a particle outside its region,
\* temp/partial takes off the x component
BiasVec(a) ==
  IF Tbias.style = "temp/region"
  THEN IF a.inregion THEN <<0, 0, 0>> ELSE a.v
  ELSE <<a.v[1], 0, 0>>

\* tbias->dof_remove(i) of temp/region: 1 for a particle the bias removes
dof_remove(a) == IF a.inregion THEN 0 ELSE 1

\* tbias->remove_bias_all() on worker w: the particle store afterwards
remove_bias_all(w) ==
  [p \in Particles |->
     IF p \in LocalGroup(w)
     THEN [atom[p] EXCEPT !.v = [k \in 1..3 |-> atom[p].v[k] - BiasVec(atom[p])[k]]]
     ELSE atom[p]]

\* tbias->restore_bias_all() on worker w: the particle store afterwards
restore_bias_all(w) ==
  [p \in Particles |->
     IF p \in LocalGroup(w)
     THEN [atom[p] EXCEPT !.v = [k \in 1..3 |-> atom[p].v[k] + vbiasall[p][k]]]
     ELSE atom[p]]

\* ------------------------------------------------------------- collectives

\* worker w has made its k-th collective call of this call; the collective
\* completes on w once every worker has made its k-th one
Arrived(w) == \A u \in Workers : Len(sent[u]) >= Len(sent[w])

\* the buffers of a collective are done with once the last worker returns
\* from the call
SentAfterReturn(w) ==
  IF \A u \in Workers \ {w} : request[u] = "none"
  THEN [u \in Workers |-> <<>>]
  ELSE sent

RECURSIVE AllreduceInt(_, _)
AllreduceInt(k, n) == IF n = 0 THEN 0 ELSE sent[n][k] + AllreduceInt(k, n - 1)

RECURSIVE AllreduceDouble(_, _)
AllreduceDouble(k, n) ==
  IF n = 0 THEN Zero ELSE RAdd(sent[n][k], AllreduceDouble(k, n - 1))

RECURSIVE AllreduceDouble6(_, _)
AllreduceDouble6(k, n) ==
  IF n = 0 THEN Zero6 ELSE VAdd6(sent[n][k], AllreduceDouble6(k, n - 1))

\* ------------------------------------------------------------------- Init

Init ==
  /\ id_bias \in BiasIds
  /\ dimension \in {2, 3}
  /\ dynamic = (IF dimension = 2 THEN 1 ELSE 0)
  /\ id_bias \notin {"NULL", "partial", "region"} => dimension = 3
  /\ extra_dof = dimension
  /\ fixes = <<>>
  /\ ntimestep = 0
  /\ \E pop \in Populations, own \in [Particles -> Workers] :
       atom = [p \in Particles |-> [owner |-> own[p]] @@ KindOf(p, pop)]
  /\ removed = {}
  /\ vbiasall = [p \in Particles |-> <<0, 0, 0>>]
  /\ tbias_invoked = [w \in Workers |-> [scalar |-> -1, vector |-> -1]]
  /\ pc = [w \in Workers |-> "constructed"]
  /\ request = [w \in Workers |-> "none"]
  /\ calls = [w \in Workers |-> <<>>]
  /\ sent = [w \in Workers |-> <<>>]
  /\ tempbias = [w \in Workers |-> IF id_bias = "NULL" THEN 0 ELSE 1]
  /\ fix_dof = [w \in Workers |-> 0]
  /\ dof = [w \in Workers |-> 0]
  /\ tfactor = [w \in Workers |-> Zero]
  /\ scalar = [w \in Workers |-> Zero]
  /\ vector = [w \in Workers |-> Zero6]
  /\ invoked_scalar = [w \in Workers |-> -1]
  /\ invoked_vector = [w \in Workers |-> -1]
  /\ t = [w \in Workers |-> Zero]

\* ------------------------------------------------------------- the driver

\* the driver (Modify / the integrator / an output command) issues the same
\* call to every worker; evaluations need a completed init()
Schedule(op) ==
  /\ \A w \in Workers : request[w] = "none"
  /\ IF op = "init"
     THEN \A w \in Workers : pc[w] \in {"constructed", "idle"}
     ELSE \A w \in Workers : pc[w] = "idle"
  /\ request' = [w \in Workers |-> op]
  /\ UNCHANGED <<envvars, atom, removed, vbiasall, tbias_invoked, pc, calls, sent,
                 objvars, t>>

\* what a timestep does to one particle: it moves (it crosses the border of
\* the bias region and its velocity and angular momentum change) or it is
\* lost from the simulation box (owner 0)
Moved(a, how) ==
  IF how = "lost" THEN [a EXCEPT !.owner = 0]
  ELSE [a EXCEPT !.inregion = ~a.inregion,
                 !.v = <<a.v[2], a.v[3], a.v[1] + 1>>,
                 !.angmom = <<a.angmom[3], a.angmom[1], a.angmom[2]>>]

\* the particle the next timestep acts on
MovingParticle == (ntimestep % NParticles) + 1

\* one timestep of the integrator
Advance ==
  /\ \A w \in Workers : request[w] = "none" /\ pc[w] = "idle"
  /\ ntimestep < MaxStep
  /\ ntimestep' = ntimestep + 1
  /\ \E how \in {"move", "lost"} :
       atom' = [atom EXCEPT ![MovingParticle] = Moved(atom[MovingParticle], how)]
  /\ UNCHANGED <<id_bias, dimension, dynamic, extra_dof, fixes, removed, vbiasall,
                 tbias_invoked, pc, request, calls, sent, objvars, t>>

\* a fix is added to modify->fix
AddFix(d) ==
  /\ \A w \in Workers : request[w] = "none" /\ pc[w] \in {"constructed", "idle"}
  /\ Len(fixes) < MaxFixes
  /\ fixes' = Append(fixes, d)
  /\ UNCHANGED <<id_bias, dimension, dynamic, extra_dof, ntimestep, atom, removed,
                 vbiasall, tbias_invoked, pc, request, calls, sent, objvars, t>>

\* ------------------------------------------------------------- dof_compute

nper == IF dimension = 2 THEN 3 ELSE 6

\* dof = nper*natoms
DofBase(natoms) == nper * natoms

\* if (tempbias == 1) dof -= tbias->dof_remove(-1) * natoms
DofGeneric(d, natoms) == d - Tbias.dof_remove * natoms

\* the local count of the region-local branch
RegionCount(w) == Cardinality({p \in LocalGroup(w) : dof_remove(atom[p]) # 0})

\* faulty variant: the region count is not scaled by nper
DofRegionAdjustUnscaled(d, count_all) == d - count_all

\* dof -= nper*count_all
DofRegionAdjust(d, count_all) == d - nper * count_all

\* faulty variant: the constraint DOF are added back instead of removed
DofFinalAddsFix(d, w) == d - extra_dof + fix_dof[w]

\* dof -= extra_dof + fix_dof
DofFinal(d, w) == d - (extra_dof + fix_dof[w])

\* faulty variant: only dof = 0 is guarded
TFactorZeroOnly(d) == IF d # 0 THEN Rat(mvv2e, d * boltz) ELSE Zero

\* if (dof > 0) tfactor = mvv2e / (dof * boltz); else tfactor = 0.0
TFactor(d) == IF d > 0 THEN Rat(mvv2e, d * boltz) ELSE Zero

\* group->count(igroup) on worker w: the local count it contributes
GroupCountLocal(w) == Cardinality(LocalGroup(w))

DofPcs == {"init_count", "init_region", "sc_count", "sc_region"}

\* where dof_compute returns to
AfterDof(w) == IF pc[w] \in {"init_count", "init_region"} THEN "idle" ELSE "sc_scale"
RequestAfterDof(w) == IF pc[w] \in {"init_count", "init_region"} THEN "none" ELSE request[w]
SentAfterDof(w) == IF pc[w] \in {"init_count", "init_region"} THEN SentAfterReturn(w) ELSE sent
CallsAfterDof(w) == IF pc[w] \in {"init_count", "init_region"} THEN <<>> ELSE calls[w]

\* dof_compute from the completion of group->count() on
DofCount(w) ==
  /\ pc[w] \in {"init_count", "sc_count"}
  /\ Arrived(w)
  /\ LET natoms == AllreduceInt(Len(sent[w]), NWorkers)
         d0 == DofBase(natoms)
     IN  IF tempbias[w] = 2
         THEN /\ dof' = [dof EXCEPT ![w] = d0]
              /\ sent' = [sent EXCEPT ![w] = Append(@, RegionCount(w))]
              /\ calls' = [calls EXCEPT ![w] = Append(@, Ev("allreduce_count", 0))]
              /\ pc' = [pc EXCEPT ![w] = IF @ = "init_count" THEN "init_region"
                                         ELSE "sc_region"]
              /\ UNCHANGED <<tfactor, request>>
         ELSE LET d1 == IF tempbias[w] = 1 THEN DofGeneric(d0, natoms) ELSE d0
                  d2 == DofFinal(d1, w)
              IN  /\ dof' = [dof EXCEPT ![w] = d2]
                  /\ tfactor' = [tfactor EXCEPT ![w] = TFactor(d2)]
                  /\ pc' = [pc EXCEPT ![w] = AfterDof(w)]
                  /\ request' = [request EXCEPT ![w] = RequestAfterDof(w)]
                  /\ calls' = [calls EXCEPT ![w] = CallsAfterDof(w)]
                  /\ sent' = SentAfterDof(w)
  /\ UNCHANGED <<envvars, atom, removed, vbiasall, tbias_invoked, tempbias, fix_dof,
                 scalar, vector, invoked_scalar, invoked_vector, t>>

\* dof_compute from the completion of the region count's MPI_Allreduce on
DofRegion(w) ==
  /\ pc[w] \in {"init_region", "sc_region"}
  /\ Arrived(w)
  /\ LET count_all == AllreduceInt(Len(sent[w]), NWorkers)
         d2 == DofFinal(DofRegionAdjust(dof[w], count_all), w)
     IN  /\ dof' = [dof EXCEPT ![w] = d2]
         /\ tfactor' = [tfactor EXCEPT ![w] = TFactor(d2)]
  /\ pc' = [pc EXCEPT ![w] = AfterDof(w)]
  /\ request' = [request EXCEPT ![w] = RequestAfterDof(w)]
  /\ calls' = [calls EXCEPT ![w] = CallsAfterDof(w)]
  /\ sent' = SentAfterDof(w)
  /\ UNCHANGED <<envvars, atom, removed, vbiasall, tbias_invoked,
                 tempbias, fix_dof, scalar, vector, invoked_scalar, invoked_vector, t>>

\* -------------------------------------------------------------------- init

\* faulty variant: the group of the bias compute is not compared
InitErrorAnyGroup(w) ==
  IF \E p \in LocalGroup(w) : atom[p].ellipsoid < 0
  THEN "Compute temp/asphere requires extended particles"
  ELSE IF tempbias[w] = 0 THEN ""
  ELSE LET i == find_compute(id_bias)
       IN  IF i < 0 THEN "Could not find compute ID for temperature bias"
           ELSE IF modify_compute[i].tempflag = 0
             THEN "Bias compute does not calculate temperature"
           ELSE IF modify_compute[i].tempbias = 0
             THEN "Bias compute does not calculate a velocity bias"
           ELSE ""

\* the error init() ends with on worker w, "" if none
InitError(w) ==
  IF \E p \in LocalGroup(w) : atom[p].ellipsoid < 0
  THEN "Compute temp/asphere requires extended particles"
  ELSE IF tempbias[w] = 0 THEN ""
  ELSE LET i == find_compute(id_bias)
       IN  IF i < 0 THEN "Could not find compute ID for temperature bias"
           ELSE IF modify_compute[i].tempflag = 0
             THEN "Bias compute does not calculate temperature"
           ELSE IF modify_compute[i].tempbias = 0
             THEN "Bias compute does not calculate a velocity bias"
           ELSE IF modify_compute[i].igroup # igroup
             THEN "Bias compute group does not match compute group"
           ELSE ""

\* tempbias after the bias handle is resolved
InitTempbias(w) ==
  IF tempbias[w] = 0 THEN 0
  ELSE IF Tbias.style = "temp/region" THEN 2 ELSE 1

\* 0 for the first init() of the object, 1 for a later one
InitRun(w) == IF pc[w] = "constructed" THEN 0 ELSE 1

\* where the workers stand after worker w has raised msg: error->one() of
\* the point-particle check aborts the whole run, error->all() is raised by
\* every worker for itself
AfterError(w, msg) ==
  IF msg = "Compute temp/asphere requires extended particles"
  THEN [u \in Workers |-> "fatal"]
  ELSE [pc EXCEPT ![w] = "fatal"]

\* init() up to the MPI_Allreduce inside group->count()
InitBegin(w) ==
  /\ request[w] = "init"
  /\ pc[w] \in {"constructed", "idle"}
  /\ IF InitError(w) # ""
     THEN /\ pc' = AfterError(w, InitError(w))
          /\ calls' = [calls EXCEPT ![w] = <<Ev("init", InitRun(w)), Ev(InitError(w), 0)>>]
          /\ UNCHANGED <<sent, tempbias, fix_dof>>
     ELSE /\ tempbias' = [tempbias EXCEPT ![w] = InitTempbias(w)]
          /\ fix_dof' = [fix_dof EXCEPT ![w] = SumSeq(fixes)]
          /\ sent' = [sent EXCEPT ![w] = Append(@, GroupCountLocal(w))]
          /\ calls' = [calls EXCEPT ![w] = <<Ev("init", InitRun(w)), Ev("fix_dof", 0),
                                              Ev("group_count", 0)>>]
          /\ pc' = [pc EXCEPT ![w] = "init_count"]
  /\ UNCHANGED <<envvars, atom, removed, vbiasall, tbias_invoked, request, dof,
                 tfactor, scalar, vector, invoked_scalar, invoked_vector, t>>

\* ------------------------------------------- the bias bracket of one pass

\* if (tempbias) { ... tbias->remove_bias_all(); }
BiasBefore(w) == tempbias[w] # 0

\* faulty variant: the bias is put back for the generic bias kind only
BiasAfterGenericOnly(w) == tempbias[w] = 1

\* if (tempbias) tbias->restore_bias_all();
BiasAfter(w) == tempbias[w] # 0

\* faulty variant: the bias compute counts as current from the start
BiasNeverStale(w, kind) == FALSE

\* if (tbias->invoked_scalar != update->ntimestep) tbias->compute_scalar();
\* (kind "scalar"), the same with invoked_vector / compute_vector ("vector")
BiasStale(w, kind) == tbias_invoked[w][kind] # ntimestep

\* the head of compute_scalar / compute_vector: the bias is made current and
\* taken off the local group particles
BeginPass(w, kind) ==
  IF BiasBefore(w)
  THEN /\ tbias_invoked' = [tbias_invoked EXCEPT ![w][kind] = ntimestep]
       /\ vbiasall' = [p \in Particles |->
                         IF p \in LocalGroup(w) THEN BiasVec(atom[p]) ELSE vbiasall[p]]
       /\ atom' = remove_bias_all(w)
       /\ removed' = removed \cup LocalGroup(w)
       /\ calls' = [calls EXCEPT ![w] =
                      <<Ev(kind, 0)>>
                      \o (IF BiasStale(w, kind) THEN <<Ev("tbias_compute", 0)>> ELSE <<>>)
                      \o <<Ev("remove_bias_all", 0)>>]
  ELSE /\ calls' = [calls EXCEPT ![w] = <<Ev(kind, 0)>>]
       /\ UNCHANGED <<tbias_invoked, vbiasall, atom, removed>>

\* the log of the loop over the local group particles
PassLog(w) == [k \in 1..Len(LocalGroupSeq(w)) |-> Ev("accumulate", LocalGroupSeq(w)[k])]

\* the tail of the pass: the bias is put back, then MPI_Allreduce is entered
EndPass(w) ==
  /\ IF BiasAfter(w)
     THEN /\ atom' = restore_bias_all(w)
          /\ removed' = removed \ LocalGroup(w)
          /\ calls' = [calls EXCEPT ![w] = @ \o <<Ev("restore_bias_all", 0),
                                                  Ev("allreduce_energy", 0)>>]
     ELSE /\ calls' = [calls EXCEPT ![w] = Append(@, Ev("allreduce_energy", 0))]
          /\ UNCHANGED <<atom, removed>>
  /\ sent' = [sent EXCEPT ![w] = Append(@, t[w])]

\* ---------------------------------------------------------- compute_scalar

ScalarBegin(w) ==
  /\ request[w] = "scalar"
  /\ pc[w] = "idle"
  /\ invoked_scalar' = [invoked_scalar EXCEPT ![w] = ntimestep]
  /\ BeginPass(w, "scalar")
  /\ pc' = [pc EXCEPT ![w] = "sc_pass"]
  /\ UNCHANGED <<envvars, request, sent, tempbias, fix_dof, dof, tfactor, scalar,
                 vector, invoked_vector, t>>

ScalarPass(w) ==
  /\ pc[w] = "sc_pass"
  /\ t' = [t EXCEPT ![w] = ScalarLoop(LocalGroupSeq(w))]
  /\ calls' = [calls EXCEPT ![w] = @ \o PassLog(w)]
  /\ pc' = [pc EXCEPT ![w] = "sc_restore"]
  /\ UNCHANGED <<envvars, atom, removed, vbiasall, tbias_invoked, request, sent,
                 objvars>>

ScalarRestore(w) ==
  /\ pc[w] = "sc_restore"
  /\ EndPass(w)
  /\ pc' = [pc EXCEPT ![w] = "sc_energy"]
  /\ UNCHANGED <<envvars, vbiasall, tbias_invoked, request, objvars, t>>

\* faulty variant: a worker without a group particle skips the region-local
\* recomputation
DofDynamicIfOwner(w) == dynamic = 1 \/ (tempbias[w] = 2 /\ LocalGroup(w) # {})

\* faulty variant: DOF are recomputed in every scalar evaluation
DofAlwaysDynamic(w) == TRUE

\* if (dynamic || tempbias == 2) dof_compute();
DofDynamic(w) == dynamic = 1 \/ tempbias[w] = 2

\* the energy MPI_Allreduce completes; dof_compute starts if DOF can change
ScalarReduced(w) ==
  /\ pc[w] = "sc_energy"
  /\ Arrived(w)
  /\ scalar' = [scalar EXCEPT ![w] = AllreduceDouble(Len(sent[w]), NWorkers)]
  /\ IF DofDynamic(w)
     THEN /\ sent' = [sent EXCEPT ![w] = Append(@, GroupCountLocal(w))]
          /\ calls' = [calls EXCEPT ![w] = Append(@, Ev("group_count", 0))]
          /\ pc' = [pc EXCEPT ![w] = "sc_count"]
     ELSE /\ pc' = [pc EXCEPT ![w] = "sc_scale"]
          /\ UNCHANGED <<sent, calls>>
  /\ UNCHANGED <<envvars, atom, removed, vbiasall, tbias_invoked, request, tempbias,
                 fix_dof, dof, tfactor, vector, invoked_scalar, invoked_vector, t>>

\* scalar *= tfactor; return scalar;
ScalarScale(w) ==
  /\ pc[w] = "sc_scale"
  /\ scalar' = [scalar EXCEPT ![w] = RMul(scalar[w], tfactor[w])]
  /\ calls' = [calls EXCEPT ![w] = <<>>]
  /\ pc' = [pc EXCEPT ![w] = "idle"]
  /\ request' = [request EXCEPT ![w] = "none"]
  /\ t' = [t EXCEPT ![w] = Zero]
  /\ sent' = SentAfterReturn(w)
  /\ UNCHANGED <<envvars, atom, removed, vbiasall, tbias_invoked, tempbias,
                 fix_dof, dof, tfactor, vector, invoked_scalar, invoked_vector>>

\* ---------------------------------------------------------- compute_vector

VectorBegin(w) ==
  /\ request[w] = "vector"
  /\ pc[w] = "idle"
  /\ invoked_vector' = [invoked_vector EXCEPT ![w] = ntimestep]
  /\ BeginPass(w, "vector")
  /\ pc' = [pc EXCEPT ![w] = "vec_pass"]
  /\ UNCHANGED <<envvars, request, sent, tempbias, fix_dof, dof, tfactor, scalar,
                 vector, invoked_scalar, t>>

VectorPass(w) ==
  /\ pc[w] = "vec_pass"
  /\ t' = [t EXCEPT ![w] = VectorLoop(LocalGroupSeq(w))]
  /\ calls' = [calls EXCEPT ![w] = @ \o PassLog(w)]
  /\ pc' = [pc EXCEPT ![w] = "vec_restore"]
  /\ UNCHANGED <<envvars, atom, removed, vbiasall, tbias_invoked, request, sent,
                 objvars>>

VectorRestore(w) ==
  /\ pc[w] = "vec_restore"
  /\ EndPass(w)
  /\ pc' = [pc EXCEPT ![w] = "vec_energy"]
  /\ UNCHANGED <<envvars, vbiasall, tbias_invoked, request, objvars, t>>

\* for (i = 0; i < 6; i++) vector[i] *= force->mvv2e;
VectorScale(sum6) == [k \in 1..6 |-> RMul(sum6[k], FromInt(mvv2e))]

VectorReduced(w) ==
  /\ pc[w] = "vec_energy"
  /\ Arrived(w)
  /\ vector' = [vector EXCEPT ![w] = VectorScale(AllreduceDouble6(Len(sent[w]), NWorkers))]
  /\ calls' = [calls EXCEPT ![w] = <<>>]
  /\ pc' = [pc EXCEPT ![w] = "idle"]
  /\ request' = [request EXCEPT ![w] = "none"]
  /\ t' = [t EXCEPT ![w] = Zero]
  /\ sent' = SentAfterReturn(w)
  /\ UNCHANGED <<envvars, atom, removed, vbiasall, tbias_invoked, tempbias,
                 fix_dof, dof, tfactor, scalar, invoked_scalar, invoked_vector>>

\* ----------------------------------------------------------- specification

WorkerStep(w) ==
  \/ InitBegin(w)
  \/ DofCount(w)
  \/ DofRegion(w)
  \/ ScalarBegin(w)
  \/ ScalarPass(w)
  \/ ScalarRestore(w)
  \/ ScalarReduced(w)
  \/ ScalarScale(w)
  \/ VectorBegin(w)
  \/ VectorPass(w)
  \/ VectorRestore(w)
  \/ VectorReduced(w)

Next ==
  \/ \E op \in {"init", "scalar", "vector"} : Schedule(op)
  \/ Advance
  \/ \E d \in FixDofs : AddFix(d)
  \/ \E w \in Workers : WorkerStep(w)

Spec == Init /\ [][Next]_vars

\* the workers run whenever they can: a worker that is not waiting in a
\* collective takes its next step, and a collective every worker has
\* entered completes
FairSpec == Spec /\ \A w \in Workers : WF_vars(WorkerStep(w))

\* ------------------------------------------------ what the claims refer to

PassPcs == {"sc_pass", "sc_restore", "vec_pass", "vec_restore"}
PassDonePcs == {"sc_energy", "sc_count", "sc_region", "sc_scale", "vec_energy"}
EvalPcs == PassPcs \cup PassDonePcs

\* the group, counted once globally
GroupAll == {p \in Particles : atom[p].owner # 0 /\ atom[p].mask}

BiasConfigured == id_bias # "NULL"
BiasResolvable ==
  /\ find_compute(id_bias) >= 0
  /\ Tbias.tempflag # 0
  /\ Tbias.tempbias # 0
  /\ Tbias.igroup = igroup
RegionLocal == BiasConfigured /\ BiasResolvable /\ Tbias.style = "temp/region"
GenericBias == BiasConfigured /\ BiasResolvable /\ Tbias.style # "temp/region"

PointParticleOn(w) == \E p \in LocalGroup(w) : atom[p].ellipsoid < 0
BadConfig ==
  \/ \E w \in Workers : PointParticleOn(w)
  \/ BiasConfigured /\ ~BiasResolvable

\* the particle as the integrator left it (bias not taken off)
Natural(p) ==
  IF p \in removed
  THEN [atom[p] EXCEPT !.v = [k \in 1..3 |-> atom[p].v[k] + vbiasall[p][k]]]
  ELSE atom[p]

\* the particle as a pass sees it (bias taken off when one is configured)
Thermal(p) ==
  IF BiasConfigured
  THEN [Natural(p) EXCEPT !.v = [k \in 1..3 |-> Natural(p).v[k] - BiasVec(Natural(p))[k]]]
  ELSE Natural(p)

\* the DOF the current configuration has, with constraint sum fsum
ExpectedDof(fsum) ==
  LET n == Cardinality(GroupAll)
      per == IF dimension = 2 THEN 3 ELSE 6
      adjust == IF RegionLocal
                THEN per * Cardinality({p \in GroupAll : ~atom[p].inregion})
                ELSE IF GenericBias THEN Tbias.dof_remove * n
                ELSE 0
  IN  per * n - adjust - extra_dof - fsum

\* worker w's dof_compute returns in this step
DofReturns(w) == pc[w] \in DofPcs /\ pc'[w] \notin DofPcs \cup {"fatal"}

\* ------------------------------------------------------------------ claims

LogOf(w) == calls[w]
First(S) == CHOOSE k \in S : \A j \in S : k <= j
AccumulatedOnce(w) ==
  /\ Count(LogOf(w), "accumulate") = Cardinality(LocalGroup(w))
  /\ \A p \in LocalGroup(w) :
       \E k \in Pos(LogOf(w), "accumulate") : LogOf(w)[k].p = p

\* C1: with a bias handle configured, on every worker and in both
\* evaluations the bulk bias removal is called once, before the accumulation
\* pass starts, and the bulk restore once, after the whole local pass; a
\* worker that is not inside a pass has none of its velocities stripped.
C1_BiasBracketsPass ==
  \A w \in Workers :
    /\ (BiasConfigured /\ pc[w] \in {"sc_pass", "vec_pass"}) =>
         /\ Count(LogOf(w), "remove_bias_all") = 1
         /\ Count(LogOf(w), "accumulate") = 0
         /\ Count(LogOf(w), "restore_bias_all") = 0
         /\ LocalGroup(w) \subseteq removed
    /\ (BiasConfigured /\ pc[w] \in {"sc_restore", "vec_restore"}) =>
         /\ Count(LogOf(w), "remove_bias_all") = 1
         /\ Count(LogOf(w), "restore_bias_all") = 0
         /\ AccumulatedOnce(w)
         /\ \A k \in Pos(LogOf(w), "accumulate") :
              First(Pos(LogOf(w), "remove_bias_all")) < k
         /\ LocalGroup(w) \subseteq removed
    /\ (BiasConfigured /\ pc[w] \in PassDonePcs) =>
         /\ Count(LogOf(w), "remove_bias_all") = 1
         /\ Count(LogOf(w), "restore_bias_all") = 1
         /\ AccumulatedOnce(w)
         /\ \A k \in Pos(LogOf(w), "accumulate") :
              /\ First(Pos(LogOf(w), "remove_bias_all")) < k
              /\ k < First(Pos(LogOf(w), "restore_bias_all"))
    /\ pc[w] \notin PassPcs => \A p \in removed : atom[p].owner # w

\* C1 witness: a worker with a region-local bias and a local group particle
\* has finished its pass; the bias was taken off and put back
C1_Witness ==
  \E w \in Workers :
    /\ pc[w] = "sc_scale"
    /\ tempbias[w] = 2
    /\ LocalGroup(w) # {}
    /\ Count(LogOf(w), "restore_bias_all") = 1
    /\ \E u \in Workers : pc[u] = "idle" /\ ntimestep = 1 /\ removed = {}

\* C5: whenever dof_compute returns, DOF is nper x (global group count)
\* minus the bias adjustment (0, dof_remove x count, or nper x the region
\* count summed over the workers) minus extra DOF minus the constraint sum
\* recorded by init().
C5_DofFormula ==
  [][\A w \in Workers : DofReturns(w) => dof'[w] = ExpectedDof(fix_dof[w])]_vars

\* C5 witness: a region-local DOF recomputed with the group spread over two
\* workers and a particle outside the region
C5_Witness ==
  \E w \in Workers :
    /\ pc[w] = "sc_scale"
    /\ tempbias[w] = 2
    /\ \E p, q \in GroupAll : atom[p].owner # atom[q].owner /\ ~atom[p].inregion
    /\ dof[w] = ExpectedDof(fix_dof[w])
    /\ dimension = 2

\* C7: the trace of the tensor equals mvv2e times the reduced energy sum of
\* the scalar evaluation of the same step (before it is scaled by tfactor).
C7_TraceMatchesScalar ==
  \A w \in Workers :
    (pc[w] = "sc_scale" /\ invoked_vector[w] = ntimestep) =>
      RAdd3(vector[w][1], vector[w][2], vector[w][3])
        = RMul(FromInt(mvv2e), scalar[w])

\* C7 witness: both were evaluated in one step on rotating particles held
\* by two workers
C7_Witness ==
  \E w \in Workers :
    /\ pc[w] = "sc_scale"
    /\ invoked_vector[w] = ntimestep
    /\ scalar[w] # Zero
    /\ \E p, q \in GroupAll :
         atom[p].owner # atom[q].owner /\ atom[p].angmom # <<0, 0, 0>>

\* the tensor contribution of one particle with the rotational cross terms
\* paired as pair says: pair[c] = <<k, a, b>> puts I_k * w_a * w_b in
\* component c
TensorWith(a, pair) ==
  LET I == inertia(a)
      w == wbody(a)
      m == a.rmass
      tr == << m * a.v[1] * a.v[1], m * a.v[2] * a.v[2], m * a.v[3] * a.v[3],
               m * a.v[1] * a.v[2], m * a.v[1] * a.v[3], m * a.v[2] * a.v[3] >>
  IN  [c \in 1..6 |->
         RAdd(FromInt(tr[c]), RMul3(I[pair[c][1]], w[pair[c][2]], w[pair[c][3]]))]

RECURSIVE TensorSum(_, _)
TensorSum(S, pair) ==
  IF S = {} THEN Zero6
  ELSE LET p == CHOOSE x \in S : TRUE
       IN  VAdd6(TensorWith(Thermal(p), pair), TensorSum(S \ {p}, pair))

\* xx,yy,zz,xy,xz,yz as the claim pairs them, and as the code does
ClaimedPairs == << <<1, 1, 1>>, <<2, 2, 2>>, <<3, 3, 3>>,
                   <<1, 1, 2>>, <<3, 3, 1>>, <<2, 2, 3>> >>
CodePairs == << <<1, 1, 1>>, <<2, 2, 2>>, <<3, 3, 3>>,
                <<1, 1, 2>>, <<2, 1, 3>>, <<3, 2, 3>> >>

VectorCurrent(w) == invoked_vector[w] = ntimestep /\ pc[w] \notin {"vec_pass", "vec_restore", "vec_energy"}

\* C9 as claimed: the tensor of the current step has Iz*wz*wx in xz and
\* Iy*wy*wz in yz
C9_ClaimedCrossTerms ==
  \A w \in Workers :
    VectorCurrent(w) =>
      vector[w] = [c \in 1..6 |-> RMul(FromInt(mvv2e), TensorSum(GroupAll, ClaimedPairs)[c])]

\* C9 amended: the tensor of the current step has Ix*wx*wy in xy, Iy*wx*wz
\* in xz and Iz*wy*wz in yz, and Ix*wx^2, Iy*wy^2, Iz*wz^2 on the diagonal.
C9_CodeCrossTerms ==
  \A w \in Workers :
    VectorCurrent(w) =>
      vector[w] = [c \in 1..6 |-> RMul(FromInt(mvv2e), TensorSum(GroupAll, CodePairs)[c])]

\* C9 witness: a tensor of the current step that includes a particle with
\* three different moments of inertia and a full angular velocity
C9_Witness ==
  \E w \in Workers :
    /\ VectorCurrent(w)
    /\ pc[w] = "idle"
    /\ \E p \in GroupAll :
         /\ inertia(atom[p])[2] # inertia(atom[p])[3]
         /\ \A k \in 1..3 : wbody(atom[p])[k] # Zero
    /\ vector[w][5] # vector[w][6]

\* C2: every worker that has finished its pass has entered the energy
\* reduction once, also one that owns no group particle; with a region-local
\* bias a scalar evaluation has entered the DOF-count reduction once when it
\* is about to return; and every evaluation a worker entered returns.
C2_EveryWorkerReduces ==
  /\ [](\A w \in Workers :
          /\ pc[w] \in PassPcs => Count(LogOf(w), "allreduce_energy") = 0
          /\ pc[w] \in PassDonePcs => Count(LogOf(w), "allreduce_energy") = 1
          /\ (RegionLocal /\ pc[w] = "sc_scale") =>
               Count(LogOf(w), "allreduce_count") = 1
          /\ (~RegionLocal /\ pc[w] \in EvalPcs) =>
               Count(LogOf(w), "allreduce_count") = 0)
  /\ (\E w \in Workers : request[w] \in {"scalar", "vector"})
       ~> (\A w \in Workers : request[w] = "none")

\* C2 witness: a worker without any group particle is about to return from
\* a scalar evaluation with a region-local bias, both reductions done
C2_Witness ==
  \E w \in Workers :
    /\ pc[w] = "sc_scale"
    /\ RegionLocal
    /\ LocalGroup(w) = {}
    /\ GroupAll # {}
    /\ Count(LogOf(w), "allreduce_energy") = 1
    /\ Count(LogOf(w), "allreduce_count") = 1

\* the energy sum of the current configuration
RECURSIVE EnergySum(_)
EnergySum(S) ==
  IF S = {} THEN Zero
  ELSE LET p == CHOOSE x \in S : TRUE
       IN  RAdd(ScalarOne(Thermal(p)), EnergySum(S \ {p}))

InvokedOf(w, kind) == IF kind = "scalar" THEN invoked_scalar[w] ELSE invoked_vector[w]
Begins(w, kind) == request[w] = kind /\ pc[w] = "idle" /\ pc'[w] # "idle"

\* C3 as claimed: a request repeated within the step of the cached result
\* is served from the cache, without a new pass
C3_ServedFromCache ==
  [][\A w \in Workers : \A kind \in {"scalar", "vector"} :
       (request[w] = kind /\ pc[w] = "idle" /\ InvokedOf(w, kind) = ntimestep) =>
         (pc'[w] = "idle" /\ scalar'[w] = scalar[w] /\ vector'[w] = vector[w])]_vars

\* C3 amended: every evaluation tags its result with the current step and
\* runs a new pass (bias removal and restore, accumulation over the local
\* group, one energy reduction) on the current particle state, also when it
\* is repeated within a step; only the bias handle's own computation is
\* skipped when the bias handle's tag is the current step.
C3_TaggedAndRecomputed ==
  /\ [](\A w \in Workers :
          /\ pc[w] \in {"sc_pass", "sc_restore", "sc_energy", "sc_count", "sc_region",
                        "sc_scale"} => invoked_scalar[w] = ntimestep
          /\ pc[w] \in {"vec_pass", "vec_restore", "vec_energy"} =>
               invoked_vector[w] = ntimestep
          /\ pc[w] \in {"sc_scale", "vec_energy"} =>
               /\ AccumulatedOnce(w)
               /\ Count(LogOf(w), "allreduce_energy") = 1
               /\ BiasConfigured => /\ Count(LogOf(w), "remove_bias_all") = 1
                                    /\ Count(LogOf(w), "restore_bias_all") = 1
          /\ pc[w] = "sc_scale" => scalar[w] = EnergySum(GroupAll))
  /\ [][\A w \in Workers : \A kind \in {"scalar", "vector"} :
          Begins(w, kind) =>
            /\ pc'[w] \in {"sc_pass", "vec_pass"}
            /\ BiasConfigured =>
                 (Count(calls'[w], "tbias_compute") = 1
                    <=> tbias_invoked[w][kind] # ntimestep)]_vars

\* C3 witness: a scalar evaluation runs its pass although the bias handle's
\* scalar is already current, that is, it is repeated within the step
C3_Witness ==
  \E w \in Workers :
    /\ pc[w] = "sc_restore"
    /\ BiasConfigured
    /\ LocalGroup(w) # {}
    /\ Count(LogOf(w), "tbias_compute") = 0
    /\ Count(LogOf(w), "accumulate") > 0

Initialized(w) ==
  pc[w] \in {"idle", "sc_pass", "sc_restore", "sc_energy", "sc_scale",
             "vec_pass", "vec_restore", "vec_energy"}

\* C4: once init() is done, DOF <= 0 goes with a scale factor of exactly 0,
\* a scalar evaluation then returns 0, and only init() ends in an error.
C4_ZeroScale ==
  /\ [](\A w \in Workers :
          (Initialized(w) /\ dof[w] <= 0) => tfactor[w] = Zero)
  /\ [][\A w \in Workers :
          /\ (pc[w] = "sc_scale" /\ pc'[w] = "idle" /\ dof[w] <= 0) =>
               scalar'[w] = Zero
          /\ (pc'[w] = "fatal" /\ pc[w] # "fatal") => request[w] = "init"]_vars

\* C4 witness: a scalar evaluation with a negative DOF and a non-zero
\* energy sum is about to return
C4_Witness ==
  \E w \in Workers :
    pc[w] = "sc_scale" /\ dof[w] < 0 /\ scalar[w] # Zero /\ tfactor[w] = Zero

Front(q) == SubSeq(q, 1, Len(q) - 1)
Last(q) == q[Len(q)]

\* C6: init() run again after a constraint with a positive DOF was added,
\* all else equal, computes a DOF strictly below the one a worker still
\* holds from before the addition (a worker in its second or later init()
\* that has not left the group count yet).
C6_ConstraintLowersDof ==
  [][\A w, u \in Workers :
       ( /\ pc[w] \in {"init_count", "init_region"}
         /\ pc'[w] = "idle"
         /\ pc[u] = "init_count"
         /\ LogOf(u)[1].p = 1
         /\ fixes # <<>>
         /\ Last(fixes) > 0
         /\ dof[u] = ExpectedDof(SumSeq(Front(fixes))) ) =>
       dof'[w] < dof[u]]_vars

\* C6 witness: one worker has the DOF with the added constraint, the other
\* still the DOF from before
C6_Witness ==
  \E w, u \in Workers :
    /\ pc[w] = "idle"
    /\ pc[u] = "init_count"
    /\ LogOf(u)[1].p = 1
    /\ fixes # <<>>
    /\ fix_dof[w] = SumSeq(fixes)
    /\ dof[u] = ExpectedDof(SumSeq(Front(fixes)))
    /\ dof[w] = ExpectedDof(SumSeq(fixes))
    /\ dof[w] < dof[u]

ExpectedTempbias == IF RegionLocal THEN 2 ELSE IF GenericBias THEN 1 ELSE 0
OwnInitError(w) == PointParticleOn(w) \/ (BiasConfigured /\ ~BiasResolvable)

\* C8: with a point particle in the group on some worker, or a bias id that
\* does not resolve to a compute with temperature, bias and this group,
\* a worker whose own check fails ends init() in the error, no worker gets
\* past the group count, a worker is ended only by such an error, and no DOF
\* is computed; otherwise no worker ends in an error, the bias kind recorded is region-local exactly
\* for a region-local bias handle, and init() returns with DOF and scale
\* factor computed.
C8_InitErrors ==
  /\ [](BadConfig =>
          \A w \in Workers :
            /\ pc[w] \in {"constructed", "fatal", "init_count"}
            /\ (pc[w] # "constructed" /\ OwnInitError(w)) => pc[w] = "fatal"
            /\ pc[w] = "fatal" =>
                 \E u \in Workers :
                   /\ OwnInitError(u)
                   /\ pc[u] = "fatal"
                   /\ Count(LogOf(u), "init") = 1)
  /\ [](~BadConfig =>
          \A w \in Workers :
            /\ pc[w] # "fatal"
            /\ pc[w] \in ({"idle"} \cup EvalPcs) => tempbias[w] = ExpectedTempbias)
  /\ [][\A w \in Workers :
          /\ BadConfig => (dof'[w] = dof[w] /\ tfactor'[w] = tfactor[w])
          /\ (pc[w] \in {"init_count", "init_region"} /\ pc'[w] = "idle") =>
               /\ dof'[w] = ExpectedDof(SumSeq(fixes))
               /\ dof'[w] > 0 =>
                    RMul(tfactor'[w], FromInt(dof'[w] * boltz)) = FromInt(mvv2e)
               /\ dof'[w] <= 0 => tfactor'[w] = Zero]_vars

\* C8 witness: a worker ended init() in the point-particle error while the
\* other one, whose own checks passed, was in the group count
C8_Witness ==
  \E w, u \in Workers :
    /\ pc[w] = "fatal"
    /\ pc[u] = "fatal"
    /\ PointParticleOn(w)
    /\ ~OwnInitError(u)
    /\ Count(LogOf(u), "group_count") = 1
    /\ BiasConfigured

DofCanChange == dynamic = 1 \/ RegionLocal

\* C10: DOF and scale factor change in an evaluation only inside the
\* dof_compute of a scalar evaluation with dynamic DOF or a region-local
\* bias; that dof_compute runs after the bias restore and the energy
\* reduction and before the scaling, which then uses the DOF of the current
\* configuration; no other evaluation runs it; and the constraint sum
\* changes only in init().
C10_DofFrame ==
  /\ [](\A w \in Workers :
          /\ pc[w] \in {"sc_count", "sc_region"} =>
               /\ DofCanChange
               /\ LocalGroup(w) \cap removed = {}
               /\ Count(LogOf(w), "allreduce_energy") = 1
          /\ pc[w] = "sc_scale" =>
               Count(LogOf(w), "group_count") = (IF DofCanChange THEN 1 ELSE 0)
          /\ (pc[w] = "sc_scale" /\ DofCanChange) =>
               dof[w] = ExpectedDof(fix_dof[w])
          /\ pc[w] \in {"vec_pass", "vec_restore", "vec_energy"} =>
               Count(LogOf(w), "group_count") = 0)
  /\ [][\A w \in Workers :
          /\ (dof'[w] # dof[w] \/ tfactor'[w] # tfactor[w]) =>
               /\ pc[w] \in DofPcs
               /\ pc[w] \in {"sc_count", "sc_region"} => DofCanChange
          /\ fix_dof'[w] # fix_dof[w] =>
               (request[w] = "init" /\ pc[w] \in {"constructed", "idle"})
          /\ (pc[w] = "sc_scale" /\ pc'[w] = "idle") =>
               scalar'[w] = RMul(scalar[w], tfactor[w])]_vars

\* C10 witness: in a scalar evaluation one worker has recomputed its DOF
\* and got another value than the one the other worker still holds, with
\* a constraint registry that has changed since init()
C10_Witness ==
  \E w, u \in Workers :
    /\ pc[w] = "sc_scale"
    /\ pc[u] = "sc_count"
    /\ dof[w] # dof[u]
    /\ fix_dof[w] # SumSeq(fixes)

====
